---- MODULE Spec2Model ----
(***************************************************************************)
(* A model of zebra-network's AddressBook (address_book.rs): the two maps  *)
(* by_addr (a HashMap keyed by address) and by_time (a BTreeMap keyed by   *)
(* last_seen), the update / peers / disconnected_peers / drain_recent      *)
(* operations and the Drain iterator.                                      *)
(*                                                                         *)
(* A map is a TLA+ function whose DOMAIN is the set of keys it holds.      *)
(* by_addr[a] is the pair <<last_seen, services>>, by_time[t] is the pair  *)
(* <<addr, services>>.  A MetaAddr is a record [addr, services, last_seen].*)
(***************************************************************************)
EXTENDS Integers, Sequences, FiniteSets

\* ---------------------------------------------------------------- bounds
NumAddrs == 2
MaxTime == 2
MaxServices == 1

\* Time is counted in units of one LIVE_PEER_DURATION.
LIVE_PEER_DURATION == 1

Addrs == 1..NumAddrs
Times == 1..MaxTime
Services == 0..MaxServices
\* The values Utc::now() is drawn from: the cutoff runs over 0..MaxTime+1.
Nows == LIVE_PEER_DURATION..(MaxTime + 1 + LIVE_PEER_DURATION)

MetaAddrs == [addr : Addrs, services : Services, last_seen : Times]

VARIABLES
    by_addr,    \* AddressBook.by_addr
    by_time,    \* AddressBook.by_time
    panicked,   \* an expect() of update has fired: the call aborted
    draining,   \* a Drain iterator borrows the book (drain_recent was called)
    last,       \* the last call, what it returned, for update the by_addr
                \* entry the address had before (prev), for extend the maps
                \* it was called on (book)
    observed,   \* history: the addresses update has been called with
    drained,    \* history: some drain step has removed a record
    by_addr0,   \* history: by_addr when the live Drain was created
    peers0,     \* history: peers() when the live Drain was created
    yielded     \* history: what the live Drain has yielded so far

vars == <<by_addr, by_time, panicked, draining, last, observed, drained,
          by_addr0, peers0, yielded>>

\* ------------------------------------------------------------- the maps
\* The shape of the two maps of the AddressBook struct.
TypeOK ==
    /\ DOMAIN by_addr \subseteq Addrs
    /\ \A a \in DOMAIN by_addr : by_addr[a] \in Times \X Services
    /\ DOMAIN by_time \subseteq Times
    /\ \A t \in DOMAIN by_time : by_time[t] \in Addrs \X Services
    /\ panicked \in BOOLEAN
    /\ draining \in BOOLEAN

EmptyMap == [k \in {} |-> {}]

\* An insert that keeps the value already at the key (entry().or_insert).
MapInsert_KeepExisting(m, k, v) ==
    [x \in (DOMAIN m) \cup {k} |-> IF x \in DOMAIN m THEN m[x] ELSE v]

\* HashMap / BTreeMap insert: a value already at the key is replaced.
MapInsert(m, k, v) == [x \in (DOMAIN m) \cup {k} |-> IF x = k THEN v ELSE m[x]]

\* HashMap / BTreeMap remove.
MapRemove(m, k) == [x \in (DOMAIN m) \ {k} |-> m[x]]

MaxOf(S) == CHOOSE m \in S : \A x \in S : x <= m

\* The keys of S from the largest to the smallest: keys().rev().
RECURSIVE Descending(_)
Descending(S) ==
    IF S = {} THEN << >>
    ELSE LET m == MaxOf(S) IN <<m>> \o Descending(S \ {m})

from_by_time_kv(t, v) == [addr |-> v[1], services |-> v[2], last_seen |-> t]

\* ---------------------------------------------------------------- update
\* The staleness test with its comparison reversed.
Stale_Reversed(prev_last_seen, last_seen) == prev_last_seen < last_seen

\* The staleness test left out: no event is discarded.
Stale_Never(prev_last_seen, last_seen) == FALSE

\* The staleness test of update: the stored timestamp is newer than the event's.
Stale(prev_last_seen, last_seen) == prev_last_seen > last_seen

\* update that leaves the by_time entry at the previous timestamp in place.
UpdateBook_KeepStale(ba, bt, event) ==
    [by_addr |-> MapInsert(ba, event.addr, <<event.last_seen, event.services>>),
     by_time |-> MapInsert(bt, event.last_seen, <<event.addr, event.services>>),
     panicked |-> FALSE]

\* update that, for a held address, writes by_time but not the by_addr entry.
UpdateBook_NoEntryInsert(ba, bt, event) ==
    IF event.addr \in DOMAIN ba
    THEN IF ba[event.addr][1] > event.last_seen
         THEN [by_addr |-> ba, by_time |-> bt, panicked |-> FALSE]
         ELSE IF ba[event.addr][1] \notin DOMAIN bt
         THEN [by_addr |-> ba, by_time |-> bt, panicked |-> TRUE]
         ELSE [by_addr |-> ba,
               by_time |-> MapInsert(MapRemove(bt, ba[event.addr][1]),
                                     event.last_seen,
                                     <<event.addr, event.services>>),
               panicked |-> FALSE]
    ELSE [by_addr |-> MapInsert(ba, event.addr, <<event.last_seen, event.services>>),
          by_time |-> MapInsert(bt, event.last_seen, <<event.addr, event.services>>),
          panicked |-> FALSE]

\* update(event) on the maps ba, bt: the maps afterwards, and whether the
\* expect on by_time.remove fired (then nothing was written).
UpdateBook(ba, bt, event) ==
    LET addr == event.addr
        services == event.services
        last_seen == event.last_seen
    IN  IF addr \in DOMAIN ba
        THEN LET prev_last_seen == ba[addr][1]
             IN  IF Stale(prev_last_seen, last_seen)
                 THEN [by_addr |-> ba, by_time |-> bt, panicked |-> FALSE]
                 ELSE IF prev_last_seen \notin DOMAIN bt
                 THEN [by_addr |-> ba, by_time |-> bt, panicked |-> TRUE]
                 ELSE [by_addr |-> MapInsert(ba, addr, <<last_seen, services>>),
                       by_time |-> MapInsert(MapRemove(bt, prev_last_seen),
                                             last_seen, <<addr, services>>),
                       panicked |-> FALSE]
        ELSE [by_addr |-> MapInsert(ba, addr, <<last_seen, services>>),
              by_time |-> MapInsert(bt, last_seen, <<addr, services>>),
              panicked |-> FALSE]

\* ---------------------------------------------------------------- queries
\* peers(): by_time.iter().rev().map(from_by_time_kv)
Peers(bt) ==
    LET ks == Descending(DOMAIN bt)
    IN  [i \in 1..Len(ks) |-> from_by_time_kv(ks[i], bt[ks[i]])]

\* by_time.range((Unbounded, Excluded(cutoff)))
RangeBelow(bt, cutoff) == {t \in DOMAIN bt : t < cutoff}

\* disconnected_peers() when Utc::now() returns now.
DisconnectedPeers(bt, now) ==
    LET cutoff == now - LIVE_PEER_DURATION
        ks == Descending(RangeBelow(bt, cutoff))
    IN  [i \in 1..Len(ks) |-> from_by_time_kv(ks[i], bt[ks[i]])]

\* ------------------------------------------------------------------ drain
\* Drain::next on the maps ba, bt: what it yields and the maps afterwards.
DrainNext(ba, bt) ==
    IF DOMAIN bt = {}
    THEN [some |-> FALSE, by_addr |-> ba, by_time |-> bt]
    ELSE LET most_recent == MaxOf(DOMAIN bt)
             addr == bt[most_recent][1]
             services == bt[most_recent][2]
         IN  [some |-> TRUE,
              item |-> [addr |-> addr, services |-> services,
                        last_seen |-> most_recent],
              by_addr |-> MapRemove(ba, addr),
              by_time |-> MapRemove(bt, most_recent)]

\* ------------------------------------------------------------------ state
Init ==
    /\ by_addr = EmptyMap
    /\ by_time = EmptyMap
    /\ panicked = FALSE
    /\ draining = FALSE
    /\ last = [op |-> "new"]
    /\ observed = {}
    /\ drained = FALSE
    /\ by_addr0 = EmptyMap
    /\ peers0 = << >>
    /\ yielded = << >>

\* update(event).  The debug! line only reads the book.
Update(event) ==
    /\ ~panicked
    /\ ~draining
    /\ LET r == UpdateBook(by_addr, by_time, event)
       IN  /\ by_addr' = r.by_addr
           /\ by_time' = r.by_time
           /\ panicked' = r.panicked
    /\ last' = [op |-> "update", event |-> event,
                prev |-> IF event.addr \in DOMAIN by_addr
                         THEN <<by_addr[event.addr]>> ELSE << >>]
    /\ observed' = observed \cup {event.addr}
    /\ UNCHANGED <<draining, drained, by_addr0, peers0, yielded>>

\* peers(), collected.
PeersCall ==
    /\ ~panicked
    /\ ~draining
    /\ last' = [op |-> "peers", out |-> Peers(by_time)]
    /\ UNCHANGED <<by_addr, by_time, panicked, draining, observed, drained,
                   by_addr0, peers0, yielded>>

\* disconnected_peers(), collected, with Utc::now() = now.
DisconnectedPeersCall(now) ==
    /\ ~panicked
    /\ ~draining
    /\ last' = [op |-> "disconnected_peers", now |-> now,
                out |-> DisconnectedPeers(by_time, now)]
    /\ UNCHANGED <<by_addr, by_time, panicked, draining, observed, drained,
                   by_addr0, peers0, yielded>>

\* drain_recent(): the Drain borrows the book until it is dropped.
DrainRecent ==
    /\ ~panicked
    /\ ~draining
    /\ draining' = TRUE
    /\ by_addr0' = by_addr
    /\ peers0' = Peers(by_time)
    /\ yielded' = << >>
    /\ last' = [op |-> "drain_recent"]
    /\ UNCHANGED <<by_addr, by_time, panicked, observed, drained>>

\* One step of the Drain iterator.
DrainStep ==
    /\ draining
    /\ LET r == DrainNext(by_addr, by_time)
       IN  /\ by_addr' = r.by_addr
           /\ by_time' = r.by_time
           /\ IF r.some
              THEN /\ last' = [op |-> "drain_next", some |-> TRUE, item |-> r.item]
                   /\ yielded' = Append(yielded, r.item)
                   /\ drained' = TRUE
              ELSE /\ last' = [op |-> "drain_next", some |-> FALSE]
                   /\ UNCHANGED <<yielded, drained>>
    /\ UNCHANGED <<panicked, draining, observed, by_addr0, peers0>>

\* The Drain is dropped, exhausted or not: the book can be used again.
DrainDrop ==
    /\ draining
    /\ draining' = FALSE
    /\ by_addr0' = EmptyMap
    /\ peers0' = << >>
    /\ yielded' = << >>
    /\ last' = [op |-> "drain_drop"]
    /\ UNCHANGED <<by_addr, by_time, panicked, observed, drained>>

Next ==
    \/ \E event \in MetaAddrs : Update(event)
    \/ PeersCall
    \/ \E now \in Nows : DisconnectedPeersCall(now)
    \/ DrainRecent
    \/ DrainStep
    \/ DrainDrop

Spec == Init /\ [][Next]_vars

\* ------------------------------------------------------------------ extend
MaxBatch == 2

\* The sequences extend is called with: up to MaxBatch MetaAddrs.
RECURSIVE SeqsUpTo(_, _)
SeqsUpTo(S, n) ==
    IF n = 0 THEN {<< >>}
    ELSE LET shorter == SeqsUpTo(S, n - 1)
         IN  shorter \cup {Append(q, x) : q \in shorter, x \in S}

Batches == SeqsUpTo(MetaAddrs, MaxBatch)

\* The loop of extend from the i-th element of iter on, on the maps ba, bt.
\* A panicking update ends the loop; calls counts the update calls made.
RECURSIVE ExtendFrom(_, _, _, _)
ExtendFrom(ba, bt, iter, i) ==
    IF i > Len(iter)
    THEN [by_addr |-> ba, by_time |-> bt, panicked |-> FALSE, calls |-> i - 1]
    ELSE \* one evaluation of update(iter[i]), named r
         CHOOSE out \in {LET r == UpdateBook(ba, bt, iter[i])
                         IN  IF r.panicked
                             THEN [by_addr |-> r.by_addr, by_time |-> r.by_time,
                                   panicked |-> TRUE, calls |-> i]
                             ELSE ExtendFrom(r.by_addr, r.by_time, iter, i + 1)} : TRUE

\* extend that walks the sequence from its last element to its first.
ExtendBook_Reversed(ba, bt, iter) ==
    ExtendFrom(ba, bt, [i \in 1..Len(iter) |-> iter[Len(iter) + 1 - i]], 1)

\* extend(iter): the loop `for meta in iter { self.update(meta) }` on the
\* maps ba, bt.
ExtendBook(ba, bt, iter) == ExtendFrom(ba, bt, iter, 1)

\* extend(iter)
Extend(iter) ==
    /\ ~panicked
    /\ ~draining
    /\ \E r \in {ExtendBook(by_addr, by_time, iter)} :
          /\ by_addr' = r.by_addr
          /\ by_time' = r.by_time
          /\ panicked' = r.panicked
          /\ observed' = observed \cup {iter[i].addr : i \in 1..r.calls}
    /\ last' = [op |-> "extend", iter |-> iter,
                book |-> [by_addr |-> by_addr, by_time |-> by_time]]
    /\ UNCHANGED <<draining, drained, by_addr0, peers0, yielded>>

NextExtend ==
    \/ \E event \in MetaAddrs : Update(event)
    \/ \E iter \in Batches : Extend(iter)

SpecExtend == Init /\ [][NextExtend]_vars

\* --------------------------------------------------- inventory hashes
\* protocol/inv.rs.  A hash is an array of HashLen bytes (32 in the code; the
\* model keeps HashLen of them), a wire record is the 4 bytes of the type
\* code followed by the hash.  An InventoryHash is [kind |-> "Error"] or
\* [kind |-> "Tx" | "Block" | "FilteredBlock", hash |-> h].
HashLen == 2
MaxByte == 1
MaxCodeByte == 4

Hashes == [1..HashLen -> 0..MaxByte]
ZeroHash == [i \in 1..HashLen |-> 0]

InventoryHashes ==
    {[kind |-> "Error"]}
        \cup [kind : {"Tx", "Block", "FilteredBlock"}, hash : Hashes]

\* The complete wire records the model reads, and their prefixes (a reader
\* that ends early).
WireRecords ==
    {c \o h : c \in [1..4 -> 0..MaxCodeByte], h \in Hashes}
WireInputs ==
    {SubSeq(w, 1, n) : w \in WireRecords, n \in 0..(4 + HashLen)}

\* A u32 written most significant byte first.
U32BE(code) ==
    <<(code \div 16777216) % 256, (code \div 65536) % 256,
      (code \div 256) % 256, code % 256>>

\* write_u32::<LittleEndian>(code)
U32LE(code) ==
    <<code % 256, (code \div 256) % 256,
      (code \div 65536) % 256, (code \div 16777216) % 256>>

\* read_u32::<LittleEndian>() on four bytes
FromU32LE(b) == b[1] + 256 * b[2] + 65536 * b[3] + 16777216 * b[4]

\* InventoryHash::zcash_serialize: the bytes written (it returns Ok).
zcash_serialize(v) ==
    LET code == CASE v.kind = "Error" -> 0
                  [] v.kind = "Tx" -> 1
                  [] v.kind = "Block" -> 2
                  [] v.kind = "FilteredBlock" -> 3
        bytes == IF v.kind = "Error" THEN ZeroHash ELSE v.hash
    IN  U32LE(code) \o bytes

\* zcash_deserialize with the arms of codes 2 and 3 exchanged.
zcash_deserialize_Swapped(w) ==
    IF Len(w) < 4 + HashLen THEN [ok |-> FALSE, err |-> "Io"]
    ELSE LET code == FromU32LE(SubSeq(w, 1, 4))
             bytes == SubSeq(w, 5, 4 + HashLen)
         IN  CASE code = 0 -> [ok |-> TRUE, value |-> [kind |-> "Error"]]
               [] code = 1 -> [ok |-> TRUE, value |-> [kind |-> "Tx", hash |-> bytes]]
               [] code = 3 -> [ok |-> TRUE, value |-> [kind |-> "Block", hash |-> bytes]]
               [] code = 2 -> [ok |-> TRUE,
                               value |-> [kind |-> "FilteredBlock", hash |-> bytes]]
               [] OTHER -> [ok |-> FALSE, err |-> "ParseError"]

\* zcash_deserialize that takes the type code from the first byte alone.
zcash_deserialize_LowByte(w) ==
    IF Len(w) < 4 + HashLen THEN [ok |-> FALSE, err |-> "Io"]
    ELSE LET code == w[1]
             bytes == SubSeq(w, 5, 4 + HashLen)
         IN  CASE code = 0 -> [ok |-> TRUE, value |-> [kind |-> "Error"]]
               [] code = 1 -> [ok |-> TRUE, value |-> [kind |-> "Tx", hash |-> bytes]]
               [] code = 2 -> [ok |-> TRUE, value |-> [kind |-> "Block", hash |-> bytes]]
               [] code = 3 -> [ok |-> TRUE,
                               value |-> [kind |-> "FilteredBlock", hash |-> bytes]]
               [] OTHER -> [ok |-> FALSE, err |-> "ParseError"]

\* InventoryHash::zcash_deserialize: Ok(value), or the error.  The two reads
\* fail (an io error, by ?) when the reader ends before 4 + HashLen bytes.
zcash_deserialize(w) ==
    IF Len(w) < 4 THEN [ok |-> FALSE, err |-> "Io"]
    ELSE LET code == FromU32LE(SubSeq(w, 1, 4))
         IN  IF Len(w) < 4 + HashLen THEN [ok |-> FALSE, err |-> "Io"]
             ELSE LET bytes == SubSeq(w, 5, 4 + HashLen)
                  IN  CASE code = 0 -> [ok |-> TRUE, value |-> [kind |-> "Error"]]
                        [] code = 1 ->
                             [ok |-> TRUE, value |-> [kind |-> "Tx", hash |-> bytes]]
                        [] code = 2 ->
                             [ok |-> TRUE, value |-> [kind |-> "Block", hash |-> bytes]]
                        [] code = 3 ->
                             [ok |-> TRUE,
                              value |-> [kind |-> "FilteredBlock", hash |-> bytes]]
                        [] OTHER -> [ok |-> FALSE, err |-> "ParseError"]

\* The book is not touched by the inventory calls.  Each behaviour makes one
\* call, on an input drawn from the sets above: the functions keep no state.
BookUnchanged ==
    UNCHANGED <<by_addr, by_time, panicked, draining, observed, drained,
                by_addr0, peers0, yielded>>

\* zcash_serialize(v)
SerializeCall ==
    /\ last.op = "new"
    /\ \E v \in InventoryHashes :
          last' = [op |-> "zcash_serialize", value |-> v,
                   wire |-> zcash_serialize(v)]
    /\ BookUnchanged

\* zcash_deserialize(w)
DeserializeCall ==
    /\ last.op = "new"
    /\ \E w \in WireInputs :
          last' = [op |-> "zcash_deserialize", wire |-> w,
                   result |-> zcash_deserialize(w)]
    /\ BookUnchanged

\* zcash_deserialize on the bytes zcash_serialize(v) wrote.
SerializeThenDeserialize ==
    /\ last.op = "new"
    /\ \E v \in InventoryHashes :
          last' = [op |-> "serialize_deserialize", value |-> v,
                   result |-> zcash_deserialize(zcash_serialize(v))]
    /\ BookUnchanged

\* zcash_serialize on the value zcash_deserialize(w) returned, if it did.
DeserializeThenSerialize ==
    /\ last.op = "new"
    /\ \E w \in WireInputs :
          LET d == zcash_deserialize(w)
          IN  last' = [op |-> "deserialize_serialize", wire |-> w, result |-> d,
                       rewire |-> IF d.ok THEN zcash_serialize(d.value) ELSE << >>]
    /\ BookUnchanged

NextInv ==
    \/ SerializeCall
    \/ DeserializeCall
    \/ SerializeThenDeserialize
    \/ DeserializeThenSerialize

SpecInv == Init /\ [][NextInv]_vars

\* ----------------------------------------------------------------- claims
\* The records the registry holds, read from by_addr (one per held address).
Records(ba) ==
    {[addr |-> a, services |-> ba[a][2], last_seen |-> ba[a][1]] : a \in DOMAIN ba}

SeqSet(q) == {q[i] : i \in DOMAIN q}

\* C1: the two indices mirror each other: every by_addr entry a -> (t, s) has
\* the by_time entry t -> (a, s), and every by_time entry t -> (a, s) has the
\* by_addr entry a -> (t, s).
C1_DualIndexConsistency ==
    /\ \A a \in DOMAIN by_addr :
          /\ by_addr[a][1] \in DOMAIN by_time
          /\ by_time[by_addr[a][1]] = <<a, by_addr[a][2]>>
    /\ \A t \in DOMAIN by_time :
          /\ by_time[t][1] \in DOMAIN by_addr
          /\ by_addr[by_time[t][1]] = <<t, by_time[t][2]>>

\* C2: as long as no drain step has removed a record, every address update
\* has been called with is yielded by peers().
C2_UpdateNeverDropsPeer ==
    ~drained =>
        \A a \in observed : \E i \in DOMAIN Peers(by_time) : Peers(by_time)[i].addr = a

\* C3: no update call aborts: the expect on by_time.remove never fires.
C3_UpdateNeverAborts == ~panicked

\* C4: an update of a held address with a last_seen strictly older than the
\* stored one leaves by_addr and by_time as they were, and does not abort.
C4_StaleRejection ==
    [][(/\ last'.op = "update"
        /\ last'.event.addr \in DOMAIN by_addr
        /\ by_addr[last'.event.addr][1] > last'.event.last_seen)
       => (by_addr' = by_addr /\ by_time' = by_time /\ panicked' = panicked)]_vars

\* A stale update has just been discarded: the stored timestamp of the
\* event's address is newer than the event's.
C4_Witness ==
    /\ last.op = "update"
    /\ ~panicked
    /\ last.event.addr \in DOMAIN by_addr
    /\ by_addr[last.event.addr][1] > last.event.last_seen
    /\ by_addr[last.event.addr][2] # last.event.services

\* C5: an update of a held address with a last_seen equal to the stored one
\* is applied: afterwards both indices carry the event's services at that
\* timestamp for that address.
C5_EqualTimestampOverwrite ==
    [][(/\ last'.op = "update"
        /\ last'.event.addr \in DOMAIN by_addr
        /\ by_addr[last'.event.addr][1] = last'.event.last_seen)
       => LET e == last'.event
          IN  /\ ~panicked'
              /\ e.addr \in DOMAIN by_addr'
              /\ by_addr'[e.addr] = <<e.last_seen, e.services>>
              /\ e.last_seen \in DOMAIN by_time'
              /\ by_time'[e.last_seen] = <<e.addr, e.services>>]_vars

\* The address holds the record (t, s) in both indices of book r, and no
\* update aborted on the way.
HoldsRecord(r, a, t, s) ==
    /\ ~r.panicked
    /\ a \in DOMAIN r.by_addr
    /\ r.by_addr[a] = <<t, s>>
    /\ t \in DOMAIN r.by_time
    /\ r.by_time[t] = <<a, s>>

\* C6: from any state the registry can be in, two updates of one address with
\* timestamps t1 < t2 leave that address with the t2 record, in either order.
\* (Stated for the states in which the address is not already held with a
\* timestamp newer than t2, where no order of the two could yield t2.)
C6_OrderIndependence ==
    (~panicked /\ ~draining) =>
        \A a \in Addrs : \A t1, t2 \in Times : \A s1, s2 \in Services :
            (t1 < t2 /\ (a \in DOMAIN by_addr => by_addr[a][1] <= t2)) =>
                LET e1 == [addr |-> a, services |-> s1, last_seen |-> t1]
                    e2 == [addr |-> a, services |-> s2, last_seen |-> t2]
                    r1 == UpdateBook(by_addr, by_time, e1)
                    r12 == IF r1.panicked THEN r1
                           ELSE UpdateBook(r1.by_addr, r1.by_time, e2)
                    r2 == UpdateBook(by_addr, by_time, e2)
                    r21 == IF r2.panicked THEN r2
                           ELSE UpdateBook(r2.by_addr, r2.by_time, e1)
                IN  HoldsRecord(r12, a, t2, s2) /\ HoldsRecord(r21, a, t2, s2)

\* C7: a drain step taken while the registry holds a record yields the held
\* record with the largest last_seen and removes it, and nothing else, from
\* by_addr and by_time; taken when no record is held it yields nothing and
\* changes neither map.
C7_DrainStepRemovesMostRecent ==
    [][(last'.op = "drain_next")
       => IF DOMAIN by_addr = {} /\ DOMAIN by_time = {}
          THEN ~last'.some /\ by_addr' = by_addr /\ by_time' = by_time
          ELSE /\ last'.some
               /\ LET r == last'.item
                  IN  /\ r \in Records(by_addr)
                      /\ \A q \in Records(by_addr) : q.last_seen <= r.last_seen
                      /\ r.last_seen \in DOMAIN by_time
                      /\ by_time[r.last_seen] = <<r.addr, r.services>>
                      /\ by_addr' = MapRemove(by_addr, r.addr)
                      /\ by_time' = MapRemove(by_time, r.last_seen)]_vars

\* C8: once the Drain has yielded nothing, it has yielded every record held
\* when it was created exactly once, in strictly descending last_seen order,
\* and both maps are empty.
C8_DrainTotalityAndOrder ==
    (draining /\ last.op = "drain_next" /\ ~last.some) =>
        /\ SeqSet(yielded) = Records(by_addr0)
        /\ Len(yielded) = Cardinality(Records(by_addr0))
        /\ \A i, j \in DOMAIN yielded :
              i < j => yielded[i].last_seen > yielded[j].last_seen
        /\ DOMAIN by_addr = {}
        /\ DOMAIN by_time = {}

\* C9: after k steps of a Drain the registry holds the records it held when
\* the Drain was created minus the k yielded ones, these are the k most
\* recent of them, and peers() yields the remaining records in the order it
\* had them before.
C9_PartialDrain ==
    (draining /\ Len(yielded) >= 1) =>
        LET k == Len(yielded)
        IN  /\ Cardinality(SeqSet(yielded)) = k
            /\ SeqSet(yielded) \subseteq Records(by_addr0)
            /\ Records(by_addr) = Records(by_addr0) \ SeqSet(yielded)
            /\ \A y \in SeqSet(yielded) : \A r \in Records(by_addr) :
                  r.last_seen <= y.last_seen
            /\ Peers(by_time) = SubSeq(peers0, k + 1, Len(peers0))
            /\ SeqSet(Peers(by_time)) = Records(by_addr)

\* C10: disconnected_peers() yields, each once and from the most to the least
\* recently seen, exactly the held peers whose last_seen is strictly older
\* than now - LIVE_PEER_DURATION.
C10_DisconnectedPeers ==
    (last.op = "disconnected_peers") =>
        LET cutoff == last.now - LIVE_PEER_DURATION
            out == last.out
        IN  /\ SeqSet(out) = {r \in Records(by_addr) : r.last_seen < cutoff}
            /\ Len(out) = Cardinality(SeqSet(out))
            /\ \A i, j \in DOMAIN out :
                  i < j => out[i].last_seen >= out[j].last_seen

\* C11: peers() yields exactly the held peers, each once with its stored
\* services and last_seen, from the most to the least recently seen.
C11_PeersYieldsAllHeld ==
    (last.op = "peers") =>
        /\ SeqSet(last.out) = Records(by_addr)
        /\ Len(last.out) = Cardinality(Records(by_addr))
        /\ \A i, j \in DOMAIN last.out :
              i < j => last.out[i].last_seen >= last.out[j].last_seen

\* C12: no address is stored under two different keys of by_time, and an
\* address that by_time stores and by_addr holds has, in by_addr, the
\* last_seen that is its by_time key.
C12_OneTimestampPerAddress ==
    /\ \A t1, t2 \in DOMAIN by_time :
          by_time[t1][1] = by_time[t2][1] => t1 = t2
    /\ \A t \in DOMAIN by_time :
          by_time[t][1] \in DOMAIN by_addr => by_addr[by_time[t][1]][1] = t

\* A held address has just been moved to a newer timestamp while another
\* address is held too.
C12_Witness ==
    /\ last.op = "update"
    /\ ~panicked
    /\ last.prev # << >>
    /\ last.prev[1][1] < last.event.last_seen
    /\ Cardinality(DOMAIN by_addr) >= 2

\* C18: every by_time entry t -> (a, s) is backed by the by_addr entry
\* a -> (t, s), so by_time never has more entries than by_addr and the
\* address a drain step is about to remove is always held by by_addr.
C18_ByTimeBackedByAddr ==
    /\ \A t \in DOMAIN by_time :
          /\ by_time[t][1] \in DOMAIN by_addr
          /\ by_addr[by_time[t][1]] = <<t, by_time[t][2]>>
    /\ Cardinality(DOMAIN by_time) <= Cardinality(DOMAIN by_addr)
    /\ (DOMAIN by_time # {} =>
          DrainNext(by_addr, by_time).item.addr \in DOMAIN by_addr)

\* A drain step has removed a record of a registry that held two addresses,
\* and by_time still holds an entry.
C18_Witness ==
    /\ last.op = "drain_next"
    /\ last.some
    /\ DOMAIN by_time # {}
    /\ Cardinality(DOMAIN by_addr0) >= 2

\* C19: from one state to the next, the last_seen stored in by_addr for an
\* address that is held before and after never decreases.
C19_LastSeenMonotone ==
    [][\A a \in (DOMAIN by_addr) \cap (DOMAIN by_addr') :
          by_addr'[a][1] >= by_addr[a][1]]_vars

\* An update has met a held address stored under another timestamp than the
\* event's, and the address now holds the newest timestamp.
C19_Witness ==
    /\ last.op = "update"
    /\ ~panicked
    /\ last.prev # << >>
    /\ last.prev[1][1] # last.event.last_seen
    /\ by_addr[last.event.addr][1] = MaxTime

\* C20: an update that completes and is not discarded as stale leaves the
\* event's record in by_addr, in by_time at the event's last_seen, and in
\* what peers() yields.
C20_AcceptedUpdateVisible ==
    [][(/\ last'.op = "update"
        /\ ~panicked'
        /\ (last'.event.addr \in DOMAIN by_addr
               => by_addr[last'.event.addr][1] <= last'.event.last_seen))
       => LET e == last'.event
          IN  /\ e.addr \in DOMAIN by_addr'
              /\ by_addr'[e.addr] = <<e.last_seen, e.services>>
              /\ e.last_seen \in DOMAIN by_time'
              /\ by_time'[e.last_seen] = <<e.addr, e.services>>
              /\ e \in SeqSet(Peers(by_time'))]_vars

\* An update of a held address with new services has been accepted while
\* by_time holds fewer entries than by_addr.
C20_Witness ==
    /\ last.op = "update"
    /\ ~panicked
    /\ last.prev # << >>
    /\ last.prev[1][1] <= last.event.last_seen
    /\ last.prev[1][2] # last.event.services
    /\ Cardinality(DOMAIN by_addr) > Cardinality(DOMAIN by_time)

\* The type code of a complete wire record, and its hash bytes.
WireCode(w) == w[1] + 256 * w[2] + 256 * 256 * w[3] + 256 * 256 * 256 * w[4]
WireHash(w) == [i \in 1..HashLen |-> w[4 + i]]

\* C15: deserializing the bytes that serializing an InventoryHash wrote
\* returns that InventoryHash.
C15_ValueRoundTrip ==
    (last.op = "serialize_deserialize") =>
        /\ last.result.ok
        /\ last.result.value = last.value

\* A FilteredBlock with a nonzero hash has been serialized and read back.
C15_Witness ==
    /\ last.op = "serialize_deserialize"
    /\ last.value.kind = "FilteredBlock"
    /\ last.value.hash # ZeroHash
    /\ last.result.ok

\* C16, as claimed: for every complete wire record with a type code in 0..3,
\* serializing the deserialized value reproduces the record's bytes.
C16_WireRoundTrip ==
    (/\ last.op = "deserialize_serialize"
     /\ Len(last.wire) = 4 + HashLen
     /\ WireCode(last.wire) \in 0..3)
        => (last.result.ok /\ last.rewire = last.wire)

\* C16, amended: the same for the records with a type code in 1..3, and for
\* the record with type code 0 and an all-zero hash.
C16_WireRoundTripAmended ==
    (/\ last.op = "deserialize_serialize"
     /\ Len(last.wire) = 4 + HashLen
     /\ \/ WireCode(last.wire) \in 1..3
        \/ (WireCode(last.wire) = 0 /\ WireHash(last.wire) = ZeroHash))
        => (last.result.ok /\ last.rewire = last.wire)

\* A record with type code 3 and a nonzero hash has been read and written
\* back unchanged.
C16_Witness ==
    /\ last.op = "deserialize_serialize"
    /\ Len(last.wire) = 4 + HashLen
    /\ WireCode(last.wire) = 3
    /\ WireHash(last.wire) # ZeroHash
    /\ last.rewire = last.wire

\* C17: deserializing a complete record fails with ParseError when its type
\* code is not 0, 1, 2 or 3, whatever the hash, and returns Error, Tx, Block,
\* FilteredBlock (with the record's hash) for the codes 0, 1, 2, 3.
C17_InvalidCodeParseError ==
    (last.op = "zcash_deserialize" /\ Len(last.wire) = 4 + HashLen) =>
        LET code == WireCode(last.wire)
            h == WireHash(last.wire)
            r == last.result
        IN  /\ code \notin 0..3 => (~r.ok /\ r.err = "ParseError")
            /\ code = 0 => (r.ok /\ r.value = [kind |-> "Error"])
            /\ code = 1 => (r.ok /\ r.value = [kind |-> "Tx", hash |-> h])
            /\ code = 2 => (r.ok /\ r.value = [kind |-> "Block", hash |-> h])
            /\ code = 3 => (r.ok /\ r.value = [kind |-> "FilteredBlock", hash |-> h])

\* A record whose code is 256 (low byte 0) and whose hash is nonzero has been
\* refused with ParseError.
C17_Witness ==
    /\ last.op = "zcash_deserialize"
    /\ Len(last.wire) = 4 + HashLen
    /\ last.wire[1] = 0
    /\ last.wire[2] = 1
    /\ WireHash(last.wire) # ZeroHash
    /\ ~last.result.ok
    /\ last.result.err = "ParseError"

\* The book after update has been called on the first n elements of iter, one
\* call at a time; a call that aborts is the last one made.
RECURSIVE AfterUpdates(_, _, _)
AfterUpdates(book, iter, n) ==
    IF n = 0 THEN [by_addr |-> book.by_addr, by_time |-> book.by_time,
                   panicked |-> FALSE]
    ELSE LET b == AfterUpdates(book, iter, n - 1)
         IN  IF b.panicked THEN b
             ELSE UpdateBook(b.by_addr, b.by_time, iter[n])

\* C14: extend(iter) leaves the registry in the state that calling update on
\* each element of iter, one at a time and in the sequence's order, reaches.
C14_ExtendIsSequentialUpdate ==
    (last.op = "extend") =>
        LET b == AfterUpdates(last.book, last.iter, Len(last.iter))
        IN  /\ by_addr = b.by_addr
            /\ by_time = b.by_time
            /\ panicked = b.panicked

\* extend has applied a batch of two records of one address, the second of
\* which replaced the first.
C14_Witness ==
    /\ last.op = "extend"
    /\ ~panicked
    /\ Len(last.iter) = 2
    /\ last.iter[1].addr = last.iter[2].addr
    /\ last.iter[1].last_seen <= last.iter[2].last_seen
    /\ last.iter[1].services # last.iter[2].services
    /\ by_addr[last.iter[2].addr] = <<last.iter[2].last_seen, last.iter[2].services>>

====
